---- MODULE Spec2Model ----
(***************************************************************************)
(* Model of the quadtree/octree template class Octree<PosType, DataType,   *)
(* DIM> (octree.h) as used through QuadTree<Eigen::Vector2d, double>.      *)
(*                                                                         *)
(* Coordinates are the doubles of the source.  Every coordinate the model  *)
(* computes is a multiple of 2^-32 of small magnitude, which a double      *)
(* holds exactly; it is kept as a pair <<h, l>> of integers that stands    *)
(* for (h * Limb + l) / 2^32 with 0 <= l < Limb.                           *)
(* Nodes live in an arena: a Node* is an index into nodes, nullptr is 0.   *)
(***************************************************************************)
EXTENDS Integers, Sequences, FiniteSets

\* ------------------------------------------------------------------ bounds
MaxDepth == 4
MaxRecursion == 6
MaxCoord == 4
MaxInserts == 2
MaxValue == 2

\* ------------------------------------------------------ program constants
DIM == 2
nullptr == 0
\* the width of int
IntBits == 32

\* ---------------------------------------------------------------- doubles
Limb == 2 ^ 16

Num(h, l) == <<h + (l \div Limb), l % Limb>>
FromInt(u) == <<u * Limb, 0>>
Plus(a, b) == Num(a[1] + b[1], a[2] + b[2])
Minus(a, b) == Num(a[1] - b[1], a[2] - b[2])
Less(a, b) == a[1] < b[1] \/ (a[1] = b[1] /\ a[2] < b[2])

\* a / 2^m
RECURSIVE Halved(_, _)
Halved(a, m) ==
    IF m = 0 THEN a
    ELSE IF m > 16 THEN Halved(Num(0, a[1]), m - 16)
    ELSE Num(a[1] \div (2 ^ m), (a[1] % (2 ^ m)) * (2 ^ (16 - m)) + (a[2] \div (2 ^ m)))

\* a / k for an int k, which is converted to double; k is 2 or the value of a
\* shift 1 << n, a power of two or the least int
Over(a, k) ==
    IF k > 0
    THEN Halved(a, CHOOSE m \in 0 .. (IntBits - 2) : 2 ^ m = k)
    ELSE Minus(<<0, 0>>, Halved(a, IntBits - 1))

\* 1 << n on int: 1 << 31 is the least int, and a shift by 32 or more is
\* not defined
Shl(n) ==
    CASE n < IntBits - 1 -> 2 ^ n
      [] n = IntBits - 1 -> (-(2 ^ (IntBits - 2))) - (2 ^ (IntBits - 2))

child_num_ == Shl(DIM)

Axes == 0 .. (DIM - 1)
Slots == 0 .. (child_num_ - 1)

Coords == 0 .. MaxCoord
Values == 1 .. MaxValue
UnitPositions == [Axes -> Coords]

\* --------------------------------------------------- PosType (Eigen vector)
\* a vector holds its coefficients, computed when it is made
Vector(v) == CHOOSE w \in {v} : w = v
PosAdd(a, b) == Vector([i \in Axes |-> Plus(a[i], b[i])])
PosSub(a, b) == Vector([i \in Axes |-> Minus(a[i], b[i])])
PosDiv(a, k) == Vector([i \in Axes |-> Over(a[i], k)])
PosZero == Vector([i \in Axes |-> <<0, 0>>])

ToPos(u) == Vector([i \in Axes |-> FromInt(u[i])])
Positions == {ToPos(u) : u \in UnitPositions}

\* DataType() for double
DataType == 0

\* -------------------------------------------------------------------- Node
NoChilds == [i \in Slots |-> nullptr]
Node(center, data, depth) ==
    [center |-> center, data |-> data, depth |-> depth, childs |-> NoChilds]

\* ---------------------------------------------------------------- Boundary
Boundary(min, max) == [min |-> min, max |-> max]
size(b) == PosSub(b.max, b.min)
center(b) == PosDiv(PosAdd(b.max, b.min), 2)

\* the comparisons taken as strict
is_in_strict(b, pos) ==
    \A i \in Axes : ~(~Less(b.min[i], pos[i]) \/ ~Less(pos[i], b.max[i]))

is_in(b, pos) == \A i \in Axes : ~(Less(pos[i], b.min[i]) \/ Less(b.max[i], pos[i]))

\* boundary_, max_depth_, root_: the members of Octree (octree.h, private part)
\* nodes:   the Nodes allocated with new, in the order of their allocation
\* history: the insert calls made so far, with their arguments
\* last:    the call made last, its arguments and what it gave
VARIABLES boundary_, max_depth_, root_, nodes, history, last

vars == <<boundary_, max_depth_, root_, nodes, history, last>>

\* ------------------------------------------------------------ private part
RECURSIVE IndexBits(_, _, _)
IndexBits(pos, node, i) ==
    IF i = DIM THEN 0
    ELSE (IF Less(node.center[i], pos[i]) THEN Shl(i) ELSE 0) + IndexBits(pos, node, i + 1)

find_index(pos, node) == IndexBits(pos, node, 0)

find_center(b, pos, node) ==
    LET half_size == PosDiv(size(b), Shl(node.depth + 2))
    IN  Vector([i \in Axes |->
            IF Less(node.center[i], pos[i])
            THEN Plus(node.center[i], half_size[i])
            ELSE Minus(node.center[i], half_size[i])])

\* the value replaced, not combined
update_overwrite(old_data, new_data) == new_data

update(old_data, new_data) == new_data + old_data

find_boundary(b, node) ==
    LET half_size == PosDiv(size(b), Shl(node.depth + 1))
    IN  Boundary(PosSub(node.center, half_size), PosAdd(node.center, half_size))

\* the value combined into the node visited, not into its child
RECURSIVE insert_into_node(_, _, _, _, _, _)
insert_into_node(ns, node, pos, data, frames, route) ==
    IF frames > max_depth_ + MaxRecursion
    THEN [nodes |-> ns, frames |-> frames, route |-> route, returned |-> FALSE]
    ELSE IF ns[node].depth + 1 = max_depth_
    THEN [nodes |-> ns, frames |-> frames, route |-> route, returned |-> TRUE]
    ELSE
        LET index == find_index(pos, ns[node])
            child == ns[node].childs[index]
            fresh == Len(ns) + 1
            ns1 == IF child = nullptr
                   THEN Append([ns EXCEPT ![node].childs[index] = fresh],
                               Node(find_center(boundary_, pos, ns[node]), data,
                                    ns[node].depth + 1))
                   ELSE [ns EXCEPT ![node].data = update(@, data)]
        IN  insert_into_node(ns1, ns1[node].childs[index], pos, data, frames + 1,
                             Append(route, <<node, index>>))

\* the recursion stopped one level earlier
RECURSIVE insert_shallow(_, _, _, _, _, _)
insert_shallow(ns, node, pos, data, frames, route) ==
    IF frames > max_depth_ + MaxRecursion
    THEN [nodes |-> ns, frames |-> frames, route |-> route, returned |-> FALSE]
    ELSE IF ns[node].depth + 2 = max_depth_
    THEN [nodes |-> ns, frames |-> frames, route |-> route, returned |-> TRUE]
    ELSE
        LET index == find_index(pos, ns[node])
            child == ns[node].childs[index]
            fresh == Len(ns) + 1
            ns1 == IF child = nullptr
                   THEN Append([ns EXCEPT ![node].childs[index] = fresh],
                               Node(find_center(boundary_, pos, ns[node]), data,
                                    ns[node].depth + 1))
                   ELSE [ns EXCEPT ![child].data = update(@, data)]
        IN  insert_shallow(ns1, ns1[node].childs[index], pos, data, frames + 1,
                          Append(route, <<node, index>>))

\* the depth asked for not looked at
RECURSIVE find_deepest(_, _, _, _, _, _)
find_deepest(ns, node, pos, depth, frames, route) ==
    LET index == find_index(pos, ns[node])
    IN  IF ns[node].childs[index] = nullptr
        THEN [ret |-> node, frames |-> frames,
              route |-> Append(route, <<node, index>>)]
        ELSE find_deepest(ns, ns[node].childs[index], pos, depth, frames + 1,
                          Append(route, <<node, index>>))

\* --------------------------------------------------------- protected part
\* insert(Node*, pos, data).  frames is the depth of the recursion, route the
\* <<node, child slot>> pairs it went through.  A recursion that is MaxRecursion
\* frames past max_depth is cut off there and reported as not returned.
RECURSIVE insert(_, _, _, _, _, _)
insert(ns, node, pos, data, frames, route) ==
    IF frames > max_depth_ + MaxRecursion
    THEN [nodes |-> ns, frames |-> frames, route |-> route, returned |-> FALSE]
    ELSE IF ns[node].depth + 1 = max_depth_
    THEN [nodes |-> ns, frames |-> frames, route |-> route, returned |-> TRUE]
    ELSE
        LET index == find_index(pos, ns[node])
            child == ns[node].childs[index]
            fresh == Len(ns) + 1
            ns1 == IF child = nullptr
                   THEN Append([ns EXCEPT ![node].childs[index] = fresh],
                               Node(find_center(boundary_, pos, ns[node]), data,
                                    ns[node].depth + 1))
                   ELSE [ns EXCEPT ![child].data = update(@, data)]
        IN  insert(ns1, ns1[node].childs[index], pos, data, frames + 1,
                   Append(route, <<node, index>>))

\* find(Node*, pos, depth)
RECURSIVE find(_, _, _, _, _, _)
find(ns, node, pos, depth, frames, route) ==
    IF ns[node].depth = depth
    THEN [ret |-> node, frames |-> frames, route |-> route]
    ELSE
        LET index == find_index(pos, ns[node])
        IN  IF ns[node].childs[index] = nullptr
            THEN [ret |-> node, frames |-> frames,
                  route |-> Append(route, <<node, index>>)]
            ELSE find(ns, ns[node].childs[index], pos, depth, frames + 1,
                      Append(route, <<node, index>>))

\* traverse(Node*, func): the nodes in the order func is called on them
RECURSIVE traverse(_, _)
RECURSIVE traverse_childs(_, _, _)
traverse(ns, node) ==
    IF node = nullptr THEN <<>>
    ELSE <<node>> \o traverse_childs(ns, node, 0)

traverse_childs(ns, node, i) ==
    IF i = child_num_ THEN <<>>
    ELSE (IF ns[node].childs[i] # nullptr THEN traverse(ns, ns[node].childs[i]) ELSE <<>>)
         \o traverse_childs(ns, node, i + 1)

\* depth of the recursion of traverse below node
RECURSIVE traverse_frames(_, _)
traverse_frames(ns, node) ==
    LET below == {traverse_frames(ns, ns[node].childs[i]) :
                    i \in {j \in Slots : ns[node].childs[j] # nullptr}}
    IN  1 + (IF below = {} THEN 0 ELSE CHOOSE m \in below : \A k \in below : k <= m)

\* ------------------------------------------------------------- the calls
\* last is the call that was made last and what it gave; pending says that its
\* caller has not gone on yet.
NoCall ==
    [op |-> "new", pos |-> PosZero, data |-> DataType, depth |-> 0, ret |-> nullptr,
     frames |-> 0, returned |-> TRUE, pending |-> TRUE, route |-> <<>>, drawn |-> <<>>]

Idle == [NoCall EXCEPT !.op = "idle", !.pending = FALSE]

\* The boundaries the trees are built with.  The first leaves positions outside
\* on both sides of the x axis and has positions on the centers of the root
\* and of its children on the y axis; it is built with every max_depth up to
\* MaxDepth and with the max_depth whose deepest shift is 1 << (IntBits - 1).
\* The second has min > max on the x axis, the third min = max on the y axis.
Proper ==
    Boundary(ToPos([i \in Axes |-> IF i = 0 THEN 1 ELSE 0]),
             ToPos([i \in Axes |-> IF i = 0 THEN MaxCoord - 1 ELSE MaxCoord]))

Inverted ==
    Boundary(ToPos([i \in Axes |-> IF i = 0 THEN MaxCoord ELSE 0]),
             ToPos([i \in Axes |-> IF i = 0 THEN 0 ELSE MaxCoord]))

Flat ==
    Boundary(ToPos([i \in Axes |-> IF i = 0 THEN 0 ELSE 1]),
             ToPos([i \in Axes |-> IF i = 0 THEN MaxCoord ELSE 1]))

\* Octree(min, max, depth)
Init ==
    \E b \in {Proper, Inverted, Flat}, depth \in (0 .. MaxDepth) \cup {IntBits - 1} :
        /\ b # Proper => depth = MaxDepth
        /\ boundary_ = Boundary(b.min, b.max)
        /\ max_depth_ = depth
        /\ root_ = 1
        /\ nodes = <<Node(center(boundary_), DataType, 0)>>
        /\ history = <<>>
        /\ last = Idle

\* void insert(pos, data)
Insert(pos, data) ==
    /\ ~last.pending
    /\ Len(history) < MaxInserts
    /\ history' = Append(history, [pos |-> pos, data |-> data])
    /\ IF ~is_in(boundary_, pos)
       THEN /\ nodes' = nodes
            /\ last' = [NoCall EXCEPT !.op = "insert", !.pos = pos, !.data = data]
       ELSE LET r == insert(nodes, root_, pos, data, 1, <<>>)
            IN  /\ nodes' = r.nodes
                /\ last' = [NoCall EXCEPT !.op = "insert", !.pos = pos, !.data = data,
                                          !.frames = r.frames, !.route = r.route,
                                          !.returned = r.returned]
    /\ UNCHANGED <<boundary_, max_depth_, root_>>

\* Node *find(pos, depth)
FindDepth(pos, depth) ==
    /\ ~last.pending
    /\ LET r == find(nodes, root_, pos, depth, 1, <<>>)
       IN  last' = [NoCall EXCEPT !.op = "find_depth", !.pos = pos, !.depth = depth,
                                  !.ret = r.ret, !.frames = r.frames, !.route = r.route]
    /\ UNCHANGED <<boundary_, max_depth_, root_, nodes, history>>

\* Node *find(pos)
Find(pos) ==
    /\ ~last.pending
    /\ LET r == find(nodes, root_, pos, max_depth_, 1, <<>>)
       IN  last' = [NoCall EXCEPT !.op = "find", !.pos = pos, !.depth = max_depth_,
                                  !.ret = r.ret, !.frames = r.frames, !.route = r.route]
    /\ UNCHANGED <<boundary_, max_depth_, root_, nodes, history>>

\* visual(func) with the func of the test, which asks find_boundary of each node
Visual ==
    /\ ~last.pending
    /\ LET order == traverse(nodes, root_)
       IN  last' = [NoCall EXCEPT !.op = "visual",
                                  !.frames = traverse_frames(nodes, root_),
                                  !.drawn = [k \in 1 .. Len(order) |->
                                      [node |-> order[k],
                                       boundary |-> find_boundary(boundary_, nodes[order[k]])]]]
    /\ UNCHANGED <<boundary_, max_depth_, root_, nodes, history>>

\* the caller takes the result of the call and goes on to its next statement
Return ==
    /\ last.pending
    /\ last.returned
    /\ last' = Idle
    /\ UNCHANGED <<boundary_, max_depth_, root_, nodes, history>>

\* the depths find is asked for: the first ones and the last ones
Depths == {d \in 0 .. max_depth_ : d <= MaxDepth \/ d + 1 >= max_depth_}

Next ==
    \/ \E pos \in Positions, data \in Values : Insert(pos, data)
    \/ \E pos \in Positions, depth \in Depths : FindDepth(pos, depth)
    \/ \E pos \in Positions : Find(pos)
    \/ Visual
    \/ Return

Spec == Init /\ [][Next]_vars

\* ======================================================================
\* What the properties below speak of, stated without the code's helpers.
\* ======================================================================
NodeIds == 1 .. Len(nodes)
NonRoot == NodeIds \ {root_}
Finds == {"find", "find_depth"}

\* bit i of a child index
Bit(q, i) == (q \div (2 ^ i)) % 2

ParentOf(k) == CHOOSE p \in NodeIds : \E q \in Slots : nodes[p].childs[q] = k
SlotOf(k) == CHOOSE q \in Slots : nodes[ParentOf(k)].childs[q] = k

Leq(a, b) == ~Less(b, a)

InBounds(pos) ==
    \A i \in Axes : Leq(boundary_.min[i], pos[i]) /\ Leq(pos[i], boundary_.max[i])

\* the quadrant of pos around a center: bit i is set iff pos[i] > c[i]
Quadrant(pos, c) ==
    CHOOSE q \in Slots : \A i \in Axes : (Bit(q, i) = 1) <=> Less(c[i], pos[i])

\* the nodes met from node k on by following the quadrants pos has in the
\* region [lo, hi], which is halved at every step
RECURSIVE QuadrantPath(_, _, _, _)
QuadrantPath(k, lo, hi, pos) ==
    LET mid == Vector([i \in Axes |-> Halved(Plus(lo[i], hi[i]), 1)])
        q == Quadrant(pos, mid)
        c == nodes[k].childs[q]
    IN  IF c = nullptr THEN {k}
        ELSE {k} \cup QuadrantPath(c,
                 Vector([i \in Axes |-> IF Bit(q, i) = 1 THEN mid[i] ELSE lo[i]]),
                 Vector([i \in Axes |-> IF Bit(q, i) = 1 THEN hi[i] ELSE mid[i]]),
                 pos)

\* the existing nodes met from node k on by following the quadrants of pos
\* around the centers of the nodes
RECURSIVE Walk(_, _)
Walk(k, pos) ==
    LET c == nodes[k].childs[Quadrant(pos, nodes[k].center)]
    IN  IF c = nullptr THEN <<k>> ELSE <<k>> \o Walk(c, pos)

\* the nodes the quadrant path of the n-th insert passes through
Passed(n) ==
    IF InBounds(history[n].pos)
    THEN QuadrantPath(root_, boundary_.min, boundary_.max, history[n].pos)
    ELSE {}

\* the values in vs of the inserts whose path, in paths, goes through k
RECURSIVE Through(_, _, _)
Through(k, paths, n) ==
    IF n = 0 THEN <<>>
    ELSE IF k \in paths[n]
         THEN Append(Through(k, paths, n - 1), history[n].data)
         ELSE Through(k, paths, n - 1)

combine(old, new) == old + new

RECURSIVE Combined(_, _)
Combined(vs, n) == IF n = 0 THEN DataType ELSE combine(Combined(vs, n - 1), vs[n])

Contains(b, pos) == \A i \in Axes : Leq(b.min[i], pos[i]) /\ Leq(pos[i], b.max[i])

Region(k) == find_boundary(boundary_, nodes[k])

\* ======================================================================
\* The properties
\* ======================================================================

\* C1: aggregation correctness.  When an insert has returned, every non-root
\* node holds the combination, in call order and starting from the default
\* value, of the values of exactly the in-bounds inserts whose quadrant path
\* passes through it (their sum).  No other call changes a node or the calls
\* made.
AggregationCorrect ==
    (last.op = "insert" /\ last.returned) =>
    \A paths \in {Vector([n \in 1 .. Len(history) |-> Passed(n)])} :
        \A k \in NonRoot :
            \A vs \in {Through(k, paths, Len(history))} :
                nodes[k].data = Combined(vs, Len(vs))

AggregationWitness ==
    /\ last.op = "insert"
    /\ Len(history) = 2
    /\ \E k \in NonRoot :
        /\ k \in Passed(1) /\ k \in Passed(2)
        /\ nodes[k].data = 3
        /\ nodes[k].depth = 2

\* C2: an insert whose position lies outside the boundary returns without an
\* error and leaves every node as it was; a position inside or exactly on the
\* boundary is inserted (below the root something changes, unless max_depth
\* is 1, where nothing is ever created).
OutOfBoundsNoOp ==
    [][(last'.op = "insert" /\ last.op = "idle") =>
          IF \E i \in Axes : \/ Less(last'.pos[i], boundary_.min[i])
                             \/ Less(boundary_.max[i], last'.pos[i])
          THEN nodes' = nodes /\ last'.returned /\ last'.frames = 0
          ELSE max_depth_ # 1 => nodes' # nodes]_vars

OutOfBoundsWitness ==
    /\ last.op = "insert"
    /\ ~InBounds(last.pos)
    /\ Len(nodes) > 1
    /\ \E n \in 1 .. Len(history) - 1 :
          /\ InBounds(history[n].pos)
          /\ \E i \in Axes : history[n].pos[i] = boundary_.max[i]

\* what find(last.pos, last.depth) has to give
FoundOnPath ==
    (last.op \in Finds /\ last.depth <= max_depth_) =>
        LET w == Walk(root_, last.pos)
            d == last.depth
        IN  /\ last.ret \in NodeIds
            /\ nodes[last.ret].depth <= d
            /\ \E j \in 1 .. Len(w) : w[j] = last.ret
            /\ \A j \in 1 .. Len(w) : nodes[w[j]].depth = d => last.ret = w[j]
            /\ (\A j \in 1 .. Len(w) : nodes[w[j]].depth # d) => last.ret = w[Len(w)]
            /\ w[1] = root_
            /\ last.op = "find" => d = max_depth_

\* C3: find(pos, d) with d <= max_depth returns an existing node of depth <= d
\* and changes no node; it is the node of depth d on the path of the quadrants
\* of pos if there is one, else the deepest node on that path; find(pos) is
\* find(pos, max_depth).
LookupConsistent ==
    /\ [][(last'.op \in Finds /\ last.op = "idle") => nodes' = nodes]_vars
    /\ []FoundOnPath

LookupWitness ==
    /\ last.op = "find_depth"
    /\ last.depth = 1
    /\ nodes[last.ret].depth = 1
    /\ nodes[last.ret].childs # NoChilds
    /\ ~InBounds(last.pos)

\* C4: no node is deeper than max_depth, and a child is one deeper than its
\* parent.
DepthBound ==
    /\ \A k \in NodeIds : nodes[k].depth <= max_depth_
    /\ \A k \in NodeIds : \A q \in Slots :
          nodes[k].childs[q] # nullptr =>
              nodes[nodes[k].childs[q]].depth = nodes[k].depth + 1
    /\ nodes[root_].depth = 0

\* C5: every call of insert, find and visual returns, and its recursion goes
\* at most max_depth levels below the call made on the root.
Terminates ==
    last.op \in {"insert", "find", "find_depth", "visual"} =>
        last.returned /\ last.frames <= max_depth_ + 1

\* the region of the child a node gets for a position in quadrant q
ChildRegion(p, q) ==
    LET probe == Vector([i \in Axes |-> Plus(nodes[p].center[i], FromInt(Bit(q, i)))])
    IN  find_boundary(boundary_,
                      Node(find_center(boundary_, probe, nodes[p]), DataType,
                           nodes[p].depth + 1))

\* C6: the region of a node lies inside the region of its parent, and the
\* regions of the 2^DIM children a node can get (the center find_center gives
\* for a position in each quadrant, one level deeper) tile the node's region:
\* on every axis a child has the lower or the upper half, as its index says.
Containment ==
    /\ \A p \in NodeIds :
          LET P == Region(p)
              c == nodes[p].center
          IN  /\ \A i \in Axes : Plus(c[i], c[i]) = Plus(P.min[i], P.max[i])
              /\ nodes[p].depth + 2 < IntBits =>
                    \A q \in Slots :
                        LET C == ChildRegion(p, q)
                            k == nodes[p].childs[q]
                        IN  /\ \A i \in Axes :
                                  IF Bit(q, i) = 1
                                  THEN C.min[i] = c[i] /\ C.max[i] = P.max[i]
                                  ELSE C.min[i] = P.min[i] /\ C.max[i] = c[i]
                            /\ k # nullptr =>
                                  /\ Region(k) = C
                                  /\ \A i \in Axes : /\ Leq(P.min[i], C.min[i])
                                                     /\ Leq(C.max[i], P.max[i])
    /\ Region(root_) = boundary_

\* C7: the root keeps depth 0, the center of the boundary and the default
\* value, whatever is inserted.
RootUntouched ==
    /\ nodes[root_].depth = 0
    /\ nodes[root_].data = DataType
    /\ \A i \in Axes :
          Plus(nodes[root_].center[i], nodes[root_].center[i])
            = Plus(boundary_.min[i], boundary_.max[i])

RootWitness ==
    /\ last.op = "insert"
    /\ Len(history) >= 2
    /\ \A n \in 1 .. Len(history) : InBounds(history[n].pos)
    /\ nodes[root_].childs # NoChilds

\* C8: the child slot used at a node n for position p has bit i set iff
\* p[i] > n.center[i] (unset on a tie), in insert and in find alike, and the
\* child in a slot has its center boundary.size / 2^(n.depth + 2) below
\* n.center on the axes whose bit is unset and above it on the others.
Routed ==
    /\ last.op \in (Finds \cup {"insert"}) =>
          \A j \in 1 .. Len(last.route) :
              LET n == last.route[j][1]
                  q == last.route[j][2]
              IN  /\ n \in NodeIds
                  /\ q \in Slots
                  /\ \A i \in Axes :
                        (Bit(q, i) = 1) <=> Less(nodes[n].center[i], last.pos[i])
                  /\ j < Len(last.route) => last.route[j + 1][1] = nodes[n].childs[q]
                  /\ j = 1 => n = root_
    /\ \A n \in NodeIds : \A q \in Slots : \A i \in Axes :
          LET k == nodes[n].childs[q]
              offset == Halved(Minus(boundary_.max[i], boundary_.min[i]),
                               nodes[n].depth + 2)
          IN  k # nullptr =>
                  nodes[k].center[i] = IF Bit(q, i) = 1
                                       THEN Plus(nodes[n].center[i], offset)
                                       ELSE Minus(nodes[n].center[i], offset)

\* C9: for a position inside the boundary the region of the node find returns
\* contains the position, at every depth asked for.
FoundRegionContains ==
    (last.op \in Finds /\ InBounds(last.pos)) =>
        /\ Contains(Region(last.ret), last.pos)
        /\ \A j \in 1 .. Len(last.route) : Contains(Region(last.route[j][1]), last.pos)

\* C10: with max_depth >= 1 every insertion path is complete down to depth
\* max_depth - 1 and goes no deeper, find(pos) of an inserted in-bounds pos is
\* at depth max_depth - 1, and with max_depth = 1 the tree stays a bare root.
PathsComplete ==
    max_depth_ >= 1 =>
        /\ \A k \in NonRoot :
              nodes[k].depth < max_depth_ - 1 => nodes[k].childs # NoChilds
        /\ \A k \in NodeIds :
              nodes[k].depth = max_depth_ - 1 => nodes[k].childs = NoChilds
        /\ \A k \in NodeIds : nodes[k].depth < max_depth_
        /\ (/\ last.op = "find"
            /\ \E n \in 1 .. Len(history) :
                  history[n].pos = last.pos /\ InBounds(last.pos))
              => nodes[last.ret].depth = max_depth_ - 1
        /\ max_depth_ = 1 => Len(nodes) = 1

PathsWitness ==
    /\ max_depth_ = 4
    /\ last.op = "find"
    /\ nodes[last.ret].depth = 3
    /\ \E n \in 1 .. Len(history) : history[n].pos = last.pos

====
